---- MODULE Spec2Model ----
(***************************************************************************)
(* Crime Case Closure Classifier (src/app.py): a Streamlit script that     *)
(* loads a pickled model once, then serves a single-record form and a      *)
(* batch upload.  The script is re-executed top to bottom on every user    *)
(* interaction; one execution is modelled as a run whose position is pc.   *)
(***************************************************************************)
EXTENDS Integers, Sequences, FiniteSets, TLC

VARIABLES
    fs,           \* candidate file name -> "absent" | "corrupt" | "good"
    cache,        \* st.cache_resource store of load_model: NoModel or a handle
    loads,        \* joblib.load calls that returned a model, whole process
    model,        \* module global `model` (the handle)
    model_path,   \* module global `model_path`
    pc,           \* position of the script run
    submitted,    \* st.form_submit_button value of this run
    form,         \* form widget values of this run
    uploaded,     \* st.file_uploader value of this run
    loadRes,      \* what the load_model call of this run did (NoCall if cached)
    topUI,        \* elements emitted by the module-level code of this run
    formShown,    \* the form was rendered in this run
    uploaderShown,\* the uploader was rendered in this run
    row,          \* rows built by build_single_row in this run
    singleCalls,  \* model entry points called by the single handler
    singleUI,     \* elements emitted by the single handler
    singlePreds,  \* frames the single handler got from predict_df
    batchCalls,   \* model entry points called by the batch handler
    batchUI,      \* elements emitted by the batch handler
    batchPreds    \* frames the batch handler got from predict_df

vars == <<fs, cache, loads, model, model_path, pc, submitted, form, uploaded,
          loadRes, topUI, formShown, uploaderShown, row, singleCalls,
          singleUI, singlePreds, batchCalls, batchUI, batchPreds>>

(***************************************************************************)
(* Bounds of the model.                                                    *)
(***************************************************************************)
MaxRows == 2        \* rows of an uploaded table
MaxDrop == 2        \* leading required columns an upload may lack together

(***************************************************************************)
(* Program constants.                                                      *)
(***************************************************************************)
RAW_COLS ==
    << "Date Reported", "Date of Occurrence", "Time of Occurrence",
       "City", "Crime Code", "Crime Description",
       "Victim Age", "Victim Gender", "Weapon Used",
       "Crime Domain", "Police Deployed" >>

candidates == << "crime_model.pkl", "svm_model.pkl", "model.pkl" >>

\* proba >= 0.5, probabilities counted in percent
Threshold == 50

Range(s) == { s[i] : i \in DOMAIN s }

None == "None"
NoModel == [path |-> None, proba |-> FALSE]
NoFile == [parses |-> FALSE, cols |-> {}, nrows |-> 0, present |-> FALSE]
NoCall == [outcome |-> None, model |-> NoModel, path |-> None, last_err |-> None,
           errors |-> {}, checked |-> <<>>, loaded |-> <<>>]

(***************************************************************************)
(* Inputs.                                                                 *)
(***************************************************************************)
FileStates == {"absent", "corrupt", "good"}
FileSystems == [Range(candidates) -> FileStates]

\* positive-class probabilities (percent) and labels an opaque model returns
Probs == {49, 50, 51}
Labels == {0, 1}

ExtraCols == {"Case ID"}
\* an upload lacks no required column, any single one, or any of the leading ones
MissingSets ==
    { {c} : c \in Range(RAW_COLS) } \cup SUBSET { RAW_COLS[i] : i \in 1..MaxDrop }
UploadCols ==
    { (Range(RAW_COLS) \ miss) \cup extra : miss \in MissingSets, extra \in SUBSET ExtraCols }
\* a file the reader (pd.read_csv or pd.read_excel, by extension) parses into a
\* table with these columns and rows, or on which it raises
Uploads ==
    [parses : {TRUE}, cols : UploadCols, nrows : 1..MaxRows, present : {TRUE}]
    \cup [parses : {FALSE}, cols : {{}}, nrows : {0}, present : {TRUE}]

\* the widget values of a submit: the defaults, and an edited form.  Dates are
\* <<year, month, day>>, times are <<hour, minute>>.
Forms ==
    { [d_reported |-> <<2020, 1, 1>>, d_occ |-> <<2020, 1, 1>>, t_occ |-> <<12, 0>>,
       city |-> "Mumbai", crime_code |-> "IPC-123", crime_desc |-> "",
       victim_age |-> 30, victim_gender |-> "Male", weapon_used |-> "None",
       crime_domain |-> "Urban", police_deployed |-> 10],
      [d_reported |-> <<2020, 1, 2>>, d_occ |-> <<2020, 1, 1>>, t_occ |-> <<9, 5>>,
       city |-> "Delhi", crime_code |-> "IPC-302", crime_desc |-> "theft",
       victim_age |-> 0, victim_gender |-> "Other", weapon_used |-> "Knife",
       crime_domain |-> "Rural", police_deployed |-> 0] }
\* the widget values are not read in a run without a submit
NoForm == [d_reported |-> <<0, 0, 0>>, d_occ |-> <<0, 0, 0>>, t_occ |-> <<0, 0>>,
           city |-> "", crime_code |-> "", crime_desc |-> "",
           victim_age |-> 0, victim_gender |-> "", weapon_used |-> "",
           crime_domain |-> "", police_deployed |-> 0]

UI(kind, text, value, cols) == [kind |-> kind, text |-> text, value |-> value, cols |-> cols]
Kinds(ui) == [i \in DOMAIN ui |-> ui[i].kind]
Count(ui, kind) == Cardinality({ i \in DOMAIN ui : ui[i].kind = kind })

(***************************************************************************)
(* load_model (lines 17-30).                                               *)
(***************************************************************************)
\* the existence test left out
ExistsAlways(f, path) == TRUE

\* os.path.exists(path)
Exists(f, path) == f[path] # "absent"

\* joblib.load(path) raises: the exception is named by the file it came from
Raises(f, path) == f[path] # "good"
ErrOf(path) == path

\* the error text of the RuntimeError: f"Model load failed: {last_err}"
LoadFailedPayload(last_err) == {last_err}

RECURSIVE LoadFrom(_, _, _, _, _, _)
LoadFrom(f, i, last_err, checked, loaded, proba) ==
    IF i > Len(candidates)
    THEN IF last_err # None
         THEN [outcome |-> "load_failed", model |-> NoModel, path |-> None,
               last_err |-> last_err, errors |-> LoadFailedPayload(last_err),
               checked |-> checked, loaded |-> loaded]
         ELSE [outcome |-> "not_found", model |-> NoModel, path |-> None,
               last_err |-> None, errors |-> {},
               checked |-> checked, loaded |-> loaded]
    ELSE LET path == candidates[i] IN
         IF ~Exists(f, path)
         THEN LoadFrom(f, i + 1, last_err, Append(checked, path), loaded, proba)
         ELSE IF Raises(f, path)
         THEN LoadFrom(f, i + 1, ErrOf(path),
                       Append(checked, path), Append(loaded, path), proba)
         ELSE [outcome |-> "ok", model |-> [path |-> path, proba |-> proba],
               path |-> path, last_err |-> last_err, errors |-> {},
               checked |-> Append(checked, path), loaded |-> Append(loaded, path)]

\* the loop starts one candidate late
load_model_skip_first(f, proba) == LoadFrom(f, 2, None, <<>>, <<>>, proba)

\* proba: whether the object the file holds has predict_proba
load_model(f, proba) == LoadFrom(f, 1, None, <<>>, <<>>, proba)

\* the decorator left out
CacheHitNever(c) == FALSE

\* @st.cache_resource: a returned value is kept, an exception is not
CacheHit(c) == c # NoModel

\* st.stop() left out
AfterLoadFailureGoOn == "form"

\* st.stop() after the load error (line 36)
AfterLoadFailure == "stopped"

(***************************************************************************)
(* build_single_row (lines 41-60).                                         *)
(***************************************************************************)
\* t.strftime("%H:%M"): two zero-padded digits each
StrfHM(t) == << t[1] \div 10, t[1] % 10, t[2] \div 10, t[2] % 10 >>

\* datetime.combine(d, t)
Combine(d, t) == d \o t

\* a one-row frame with the columns RAW_COLS
build_single_row(f) ==
    [ cols |-> RAW_COLS,
      nrows |-> 1,
      data |-> << [ DateReported |-> Combine(f.d_reported, << 9, 0 >>),
                    DateOfOccurrence |-> Combine(f.d_occ, f.t_occ),
                    TimeOfOccurrence |-> StrfHM(f.t_occ),
                    City |-> f.city,
                    CrimeCode |-> f.crime_code,
                    CrimeDescription |-> IF f.crime_desc = "" THEN "" ELSE f.crime_desc,
                    VictimAge |-> f.victim_age,
                    VictimGender |-> f.victim_gender,
                    WeaponUsed |-> f.weapon_used,
                    CrimeDomain |-> f.crime_domain,
                    PoliceDeployed |-> f.police_deployed ] >> ]

(***************************************************************************)
(* predict_df (lines 62-74).                                               *)
(***************************************************************************)
Frame(cols, nrows) == [cols |-> cols, nrows |-> nrows, pred_class |-> <<>>,
                       pred_proba_class1 |-> <<>>]

\* what the opaque model does on a call with n rows: raise, or one value per row
Responses(m, n) ==
    { [raises |-> TRUE, vals |-> << >>] } \cup
    { [raises |-> FALSE, vals |-> v] : v \in [1..n -> IF m.proba THEN Probs ELSE Labels] }

\* the capability test left out
HasPredictProbaAlways(m) == TRUE

\* hasattr(model, "predict_proba")
HasPredictProba(m) == m.proba

\* proba > 0.5
PredClassStrict(p) == IF p > Threshold THEN 1 ELSE 0

\* (proba >= 0.5).astype(int)
PredClass(p) == IF p >= Threshold THEN 1 ELSE 0

\* one call of a model entry point: the handle, the rows passed, the values returned
Call(method, m, df, resp) ==
    [method |-> method, handle |-> m, nrows |-> df.nrows, returned |-> resp.vals]

predict_df(m, df, resp) ==
    IF HasPredictProba(m)
    THEN [ raised |-> resp.raises,
           calls |-> << Call("predict_proba", m, df, resp) >>,
           out |-> [ cols |-> df.cols \o << "pred_class", "pred_proba_class1" >>,
                     nrows |-> df.nrows,
                     pred_class |-> [i \in DOMAIN resp.vals |-> PredClass(resp.vals[i])],
                     pred_proba_class1 |-> resp.vals ] ]
    ELSE [ raised |-> resp.raises,
           calls |-> << Call("predict", m, df, resp) >>,
           out |-> [ cols |-> df.cols \o << "pred_class" >>,
                     nrows |-> df.nrows,
                     pred_class |-> resp.vals,
                     pred_proba_class1 |-> << >> ] ]

(***************************************************************************)
(* The script run.                                                         *)
(***************************************************************************)
Init ==
    /\ fs \in FileSystems
    /\ cache = NoModel
    /\ loads = 0
    /\ model = NoModel
    /\ model_path = None
    /\ pc = "idle"
    /\ submitted = FALSE
    /\ form = NoForm
    /\ uploaded = NoFile
    /\ loadRes = NoCall
    /\ topUI = << >>
    /\ formShown = FALSE
    /\ uploaderShown = FALSE
    /\ row = << >>
    /\ singleCalls = << >>
    /\ singleUI = << >>
    /\ singlePreds = << >>
    /\ batchCalls = << >>
    /\ batchUI = << >>
    /\ batchPreds = << >>

\* A user interaction (or the first page load) starts a run of the script.  The
\* form and the uploader can only be used if the previous run rendered them.
\* The candidate files are read only while nothing is cached, so the run finds
\* any file system then; a later change is never observed.
Interact ==
    /\ pc \in {"idle", "stopped"}
    /\ \/ submitted' = FALSE /\ form' = NoForm
       \/ formShown /\ submitted' = TRUE /\ form' \in Forms
    /\ \/ uploaded' = NoFile
       \/ uploaderShown /\ uploaded' \in Uploads
    /\ IF cache = NoModel THEN fs' \in FileSystems ELSE fs' = fs
    /\ pc' = "load"
    /\ loadRes' = NoCall
    /\ topUI' = << >>
    /\ formShown' = FALSE
    /\ uploaderShown' = FALSE
    /\ row' = << >>
    /\ singleCalls' = << >>
    /\ singleUI' = << >>
    /\ singlePreds' = << >>
    /\ batchCalls' = << >>
    /\ batchUI' = << >>
    /\ batchPreds' = << >>
    /\ UNCHANGED <<cache, loads, model, model_path>>

\* lines 32-39: model, model_path = load_model(), or report and stop
LoadGuard ==
    /\ pc = "load"
    /\ IF CacheHit(cache)
       THEN /\ model' = cache
            /\ model_path' = cache.path
            /\ topUI' = << UI("title", "", 0, << >>), UI("caption", cache.path, 0, RAW_COLS) >>
            /\ pc' = "form"
            /\ UNCHANGED <<cache, loads, loadRes>>
       ELSE \E proba \in BOOLEAN :
            LET r == load_model(fs, proba) IN
            /\ loadRes' = r
            /\ IF r.outcome = "ok"
               THEN /\ cache' = r.model
                    /\ loads' = loads + 1
                    /\ model' = r.model
                    /\ model_path' = r.path
                    /\ topUI' = << UI("title", "", 0, << >>),
                                   UI("caption", r.path, 0, RAW_COLS) >>
                    /\ pc' = "form"
               ELSE /\ topUI' = << UI("error", r.outcome, 0, << >>) >>
                    /\ pc' = AfterLoadFailure
                    /\ UNCHANGED <<cache, loads, model, model_path>>
    /\ UNCHANGED <<fs, submitted, form, uploaded, formShown, uploaderShown, row,
                   singleCalls, singleUI, singlePreds, batchCalls, batchUI, batchPreds>>

\* lines 76-97: the form is rendered; the handler runs only if submitted
RenderForm ==
    /\ pc = "form"
    /\ formShown' = TRUE
    /\ pc' = IF submitted THEN "single" ELSE "upload"
    /\ UNCHANGED <<fs, cache, loads, model, model_path, submitted, form, uploaded,
                   loadRes, topUI, uploaderShown, row, singleCalls, singleUI,
                   singlePreds, batchCalls, batchUI, batchPreds>>

\* 'Closed' if int(pred_class) == 1 else 'Not Closed'
LabelText(c) == IF c = 1 THEN "Closed" ELSE "Not Closed"

\* the exception swallowed
OnExceptionSilent(text) == << >>

\* the handler's except branch (lines 115-117, 147-149)
OnException(text) == << UI("error", text, 0, << >>), UI("exception", "", 0, << >>) >>

\* lines 97-117: the single prediction handler
SinglePredict ==
    /\ pc = "single"
    /\ \E resp \in Responses(model, 1) :
          LET r == build_single_row(form)
              res == predict_df(model, Frame(r.cols, r.nrows), resp)
              preds == res.out
          IN
          /\ row' = << r >>
          /\ singleCalls' = res.calls
          /\ IF res.raised
             THEN /\ singleUI' = OnException("Prediction failed.")
                  /\ singlePreds' = << >>
             ELSE /\ singlePreds' = << preds >>
                  /\ singleUI' =
                        << UI("success", LabelText(preds.pred_class[1]),
                              preds.pred_class[1], << >>) >>
                        \o (IF "pred_proba_class1" \in Range(preds.cols)
                            THEN << UI("write", "Probability of Closed",
                                       preds.pred_proba_class1[1], << >>) >>
                            ELSE << >>)
                        \o << UI("dataframe", "row", 1, r.cols),
                              UI("dataframe", "preds", preds.nrows, preds.cols) >>
          /\ pc' = "upload"
    /\ UNCHANGED <<fs, cache, loads, model, model_path, submitted, form, uploaded,
                   loadRes, topUI, formShown, uploaderShown, batchCalls, batchUI,
                   batchPreds>>

\* lines 119-123: the uploader is rendered; the handler runs only on a file
RenderUploader ==
    /\ pc = "upload"
    /\ uploaderShown' = TRUE
    /\ pc' = IF uploaded # NoFile THEN "batch" ELSE "idle"
    /\ UNCHANGED <<fs, cache, loads, model, model_path, submitted, form, uploaded,
                   loadRes, topUI, formShown, row, singleCalls, singleUI,
                   singlePreds, batchCalls, batchUI, batchPreds>>

\* the test inverted
missing_cols_inverted(cols) == SelectSeq(RAW_COLS, LAMBDA c : c \in cols)

\* [c for c in RAW_COLS if c not in df_up.columns]
missing_cols(cols) == SelectSeq(RAW_COLS, LAMBDA c : c \notin cols)

\* df_up[RAW_COLS]
SelectRaw(df_up) == Frame(RAW_COLS, df_up.nrows)

\* preds.head()
HeadRows(preds) == IF preds.nrows < 5 THEN preds.nrows ELSE 5

\* lines 123-149: the batch handler
BatchPredict ==
    /\ pc = "batch"
    /\ \E resp \in Responses(model, uploaded.nrows) :
          IF ~uploaded.parses
          THEN /\ batchUI' = OnException("Batch prediction failed.")
               /\ batchCalls' = << >>
               /\ batchPreds' = << >>
          ELSE LET missing == missing_cols(uploaded.cols) IN
               IF missing # << >>
               THEN /\ batchUI' = << UI("error", "Missing required columns", 0, missing) >>
                    /\ batchCalls' = << >>
                    /\ batchPreds' = << >>
               ELSE LET res == predict_df(model, SelectRaw(uploaded), resp)
                        preds == res.out
                    IN
                    /\ batchCalls' = res.calls
                    /\ IF res.raised
                       THEN /\ batchUI' = OnException("Batch prediction failed.")
                            /\ batchPreds' = << >>
                       ELSE /\ batchPreds' = << preds >>
                            /\ batchUI' =
                                  << UI("success", "Predicted rows", preds.nrows, << >>),
                                     UI("dataframe", "preds", HeadRows(preds), preds.cols),
                                     UI("download", "predictions.csv", preds.nrows,
                                        preds.cols) >>
    /\ pc' = "idle"
    /\ UNCHANGED <<fs, cache, loads, model, model_path, submitted, form, uploaded,
                   loadRes, topUI, formShown, uploaderShown, row, singleCalls,
                   singleUI, singlePreds>>

Next ==
    \/ Interact
    \/ LoadGuard
    \/ RenderForm
    \/ SinglePredict
    \/ RenderUploader
    \/ BatchPredict

Spec == Init /\ [][Next]_vars

\* The script runs to completion once started: there is no cancellation.
RunStep == LoadGuard \/ RenderForm \/ SinglePredict \/ RenderUploader \/ BatchPredict
FairSpec == Spec /\ WF_vars(RunStep)

(***************************************************************************)
(* Properties.                                                             *)
(***************************************************************************)
Called == loadRes.outcome # None
Good(f) == { i \in DOMAIN candidates : f[candidates[i]] = "good" }
Present(f) == { i \in DOMAIN candidates : f[candidates[i]] # "absent" }
Min(S) == CHOOSE x \in S : \A y \in S : x <= y
RunOver == pc \in {"idle", "stopped"}
SingleRan == pc \in {"upload", "batch", "idle"} /\ submitted
BatchRan == pc = "idle" /\ uploaded # NoFile
Valid(up) == up.parses /\ Range(RAW_COLS) \subseteq up.cols
Shown(ui) == { i \in DOMAIN ui : ui[i].kind \in {"dataframe", "download"} }
Outcomes(ui) == Count(ui, "success") + Count(ui, "error")

\* C1: load_model checks the candidates in the fixed order and returns the model
\* and path of the earliest candidate that exists and deserializes; nothing
\* after that candidate is checked for existence or deserialized.
C1_EarliestGoodCandidate ==
    Called =>
        /\ \E k \in 0..Len(candidates) : loadRes.checked = SubSeq(candidates, 1, k)
        /\ loadRes.loaded = SelectSeq(loadRes.checked, LAMBDA c : fs[c] # "absent")
        /\ IF Good(fs) # {}
           THEN LET k == Min(Good(fs)) IN
                /\ loadRes.outcome = "ok"
                /\ loadRes.path = candidates[k]
                /\ loadRes.model.path = candidates[k]
                /\ loadRes.checked = SubSeq(candidates, 1, k)
                /\ model = loadRes.model
                /\ model_path = candidates[k]
           ELSE loadRes.outcome # "ok"

C1_Witness ==
    /\ Called
    /\ fs[candidates[1]] = "corrupt"
    /\ fs[candidates[2]] = "good"
    /\ fs[candidates[3]] = "good"
    /\ loadRes.path = candidates[2]
    /\ loadRes.loaded = << candidates[1], candidates[2] >>

\* C2: when at least one candidate exists and every deserialization raises,
\* load_model fails with 'Model load failed' and the error carries the
\* underlying error of every failed attempt.
C2_EveryErrorReported ==
    (Called /\ Present(fs) # {} /\ Good(fs) = {}) =>
        /\ loadRes.outcome = "load_failed"
        /\ { ErrOf(p) : p \in Range(loadRes.loaded) } \subseteq loadRes.errors

\* C3: when every candidate is absent, load_model fails with the 'not found'
\* error and never calls the deserializer.
C3_NotFoundNoDeserialization ==
    (Called /\ Present(fs) = {}) =>
        /\ loadRes.outcome = "not_found"
        /\ loadRes.loaded = << >>
        /\ loadRes.checked = candidates

C3_Witness ==
    /\ Called
    /\ Present(fs) = {}
    /\ pc = "stopped"

\* C4: an upload that lacks a required column gets one error that lists exactly
\* the required columns it lacks, no model call, no preview and no download.
C4_MissingColumnsExact ==
    (BatchRan /\ uploaded.parses /\ ~Valid(uploaded)) =>
        /\ Len(batchUI) = 1
        /\ batchUI[1].kind = "error"
        /\ Range(batchUI[1].cols) = Range(RAW_COLS) \ uploaded.cols
        /\ Len(batchUI[1].cols) = Cardinality(Range(RAW_COLS) \ uploaded.cols)
        /\ batchCalls = << >>
        /\ batchPreds = << >>
        /\ Shown(batchUI) = {}

C4_Witness ==
    /\ BatchRan
    /\ uploaded.parses
    /\ Cardinality(Range(RAW_COLS) \ uploaded.cols) = 2
    /\ ExtraCols \subseteq uploaded.cols
    /\ batchUI # << >>

\* C5: for a valid upload, extra columns included, the table offered for
\* preview and download has every column of the upload plus the prediction
\* column(s), and as many rows as the upload.
C5_ResultKeepsUploadColumns ==
    (BatchRan /\ Valid(uploaded)) =>
        \A i \in Shown(batchUI) :
            /\ uploaded.cols \subseteq Range(batchUI[i].cols)
            /\ "pred_class" \in Range(batchUI[i].cols)
            /\ batchUI[i].value = uploaded.nrows

ProbaBranchOk(calls, preds, n) ==
    /\ Len(calls) = 1
    /\ calls[1].method = "predict_proba"
    /\ calls[1].nrows = n
    /\ \A j \in DOMAIN preds :
          /\ {"pred_class", "pred_proba_class1"} \subseteq Range(preds[j].cols)
          /\ preds[j].nrows = n
          /\ preds[j].pred_proba_class1 = calls[1].returned
          /\ DOMAIN preds[j].pred_class = 1..n
          /\ \A r \in 1..n :
                preds[j].pred_class[r] =
                    IF 2 * calls[1].returned[r] >= 100 THEN 1 ELSE 0

\* C6: with predict_proba, predict_df calls predict_proba once on the whole
\* input and never predict; pred_proba_class1 is the returned probability and
\* pred_class is 1 exactly when it is at least 0.5; both columns are present.
C6_ProbaBranch ==
    model.proba =>
        /\ SingleRan => ProbaBranchOk(singleCalls, singlePreds, 1)
        /\ (BatchRan /\ Valid(uploaded)) =>
              ProbaBranchOk(batchCalls, batchPreds, uploaded.nrows)

C6_Witness ==
    /\ model.proba
    /\ BatchRan
    /\ batchPreds # << >>
    /\ batchPreds[1].nrows = 2
    /\ batchPreds[1].pred_proba_class1 = << 50, 49 >>
    /\ batchPreds[1].pred_class = << 1, 0 >>

PlainBranchOk(calls, preds, n) ==
    /\ Len(calls) = 1
    /\ calls[1].method = "predict"
    /\ calls[1].nrows = n
    /\ \A j \in DOMAIN preds :
          /\ "pred_class" \in Range(preds[j].cols)
          /\ "pred_proba_class1" \notin Range(preds[j].cols)
          /\ preds[j].nrows = n
          /\ preds[j].pred_class = calls[1].returned
          /\ Len(preds[j].pred_class) = n

\* C7: with predict only, pred_class is the model's label for every row, there
\* is no pred_proba_class1 column, and the single display shows the label
\* without a probability line.
C7_PlainBranch ==
    (model # NoModel /\ ~model.proba) =>
        /\ SingleRan =>
              /\ PlainBranchOk(singleCalls, singlePreds, 1)
              /\ Count(singleUI, "write") = 0
              /\ singlePreds # << >> =>
                    /\ singleUI[1].kind = "success"
                    /\ singleUI[1].value = singleCalls[1].returned[1]
                    /\ singleUI[1].text =
                          (IF singleCalls[1].returned[1] = 1 THEN "Closed"
                           ELSE "Not Closed")
        /\ (BatchRan /\ Valid(uploaded)) =>
              PlainBranchOk(batchCalls, batchPreds, uploaded.nrows)

C7_Witness ==
    /\ model # NoModel
    /\ ~model.proba
    /\ SingleRan
    /\ singlePreds # << >>
    /\ singleUI[1].text = "Closed"

C8_Safe ==
    /\ pc \in {"idle", "load", "form", "single", "upload", "batch", "stopped"}
    /\ SingleRan => Outcomes(singleUI) = 1
    /\ BatchRan => Outcomes(batchUI) = 1
    /\ ~submitted => singleUI = << >>
    /\ (pc = "idle" /\ uploaded = NoFile) => batchUI = << >>
    /\ model # NoModel => pc # "stopped"

C8_Step ==
    /\ pc = "single" => (pc' = "upload" /\ model' = model /\ cache' = cache)
    /\ pc = "batch" => (pc' = "idle" /\ model' = model /\ cache' = cache)
    /\ (pc = "idle" /\ pc' = "load" /\ model # NoModel) => (model' = model /\ cache' = model)

\* C8: every request ends in exactly one of result or error and the script
\* returns to idle; a raising inference call is caught and reported, and the
\* next request is served with the same handle.
C8_RequestsEndAndRecover ==
    /\ []C8_Safe
    /\ [][C8_Step]_vars
    /\ (pc \in {"single", "batch"}) ~> (pc = "idle")
    /\ (pc = "load") ~> RunOver

C8_Witness ==
    /\ pc = "idle"
    /\ loadRes = NoCall
    /\ submitted
    /\ uploaded # NoFile
    /\ Count(singleUI, "error") = 1
    /\ Count(batchUI, "success") = 1

\* C9: in a run where load_model fails the error is reported and the run stops
\* before the form or the uploader: no row is built and no model entry point
\* is called.
C9_LoadFailureHalts ==
    loadRes.outcome \in {"not_found", "load_failed"} =>
        /\ pc = "stopped"
        /\ Kinds(topUI) = << "error" >>
        /\ ~formShown
        /\ ~uploaderShown
        /\ row = << >>
        /\ singleCalls = << >>
        /\ batchCalls = << >>
        /\ singleUI = << >>
        /\ batchUI = << >>

C9_Witness ==
    /\ loadRes.outcome = "load_failed"
    /\ pc = "stopped"
    /\ topUI # << >>

C10_Safe ==
    /\ loads <= 1
    /\ (cache # NoModel) <=> (loads = 1)
    /\ (pc \in {"form", "single", "upload", "batch"} \/ (pc = "idle" /\ formShown)) =>
          /\ model # NoModel
          /\ model = cache
          /\ model_path = model.path
    /\ \A i \in DOMAIN singleCalls : singleCalls[i].handle = cache /\ cache # NoModel
    /\ \A i \in DOMAIN batchCalls : batchCalls[i].handle = cache /\ cache # NoModel

C10_Step ==
    /\ cache # NoModel => cache' = cache
    /\ model # NoModel => (model' = model /\ model_path' = model_path)
    /\ loads' >= loads

\* C10: the artifact is deserialized at most once per process; after the first
\* successful load every request uses the same handle and path, which is never
\* null again and never reassigned.
C10_LoadedOnceNeverReassigned ==
    /\ []C10_Safe
    /\ [][C10_Step]_vars

C10_Witness ==
    /\ loads = 1
    /\ loadRes = NoCall
    /\ pc = "idle"
    /\ singleCalls # << >>
    /\ batchCalls # << >>

====
